---- MODULE Spec2Model ----
(***************************************************************************)
(* Model of the heyvr command line tool (src/index.js): main() parses the  *)
(* command line, validates it, zips the game directory in memory, posts    *)
(* the archive to heyVR and reports the result.                            *)
(*                                                                         *)
(* JavaScript strings are sequences of one-character strings, so that      *)
(* endsWith, slice, indexOf, concatenation and parseInt are computed and   *)
(* not assumed.                                                            *)
(***************************************************************************)
EXTENDS Integers, Sequences, FiniteSets

VARIABLES
    argv,       \* process.argv.slice(2): the command line arguments
    fs,         \* the set of paths that exist on disk
    env,        \* process.env.HEYVR_ACCESS_TOKEN
    pc,         \* position of main() / the pending callback
    args,       \* args.values as returned by parseArgs
    errors,     \* the errors array of main()
    path,       \* const path
    version,    \* let version
    buffers,    \* the buffers array of zipDeployFolder
    gameFile,   \* const gameFile
    form,       \* buildData, the fields appended to the FormData
    posts,      \* the requests issued through axios so far
    response,   \* how the request settled
    out,        \* the lines printed to stdout and stderr, in order
    exitCode,   \* <<>> while the process runs, <<code>> once it has ended
    input,      \* classifier harness: the string handed to the classifier
    keyword     \* classifier harness: the keyword it produced

vars == <<argv, fs, env, pc, args, errors, path, version, buffers, gameFile,
          form, posts, response, out, exitCode, input, keyword>>

-----------------------------------------------------------------------------
(* Bounds *)

\* longest string handed to the classifier harness
MaxLen == 6

\* most 'data' events the archive stream emits before it ends
MaxChunks == 2

-----------------------------------------------------------------------------
(* JavaScript values *)

\* the value undefined; no string holds this element
Undefined == <<"undefined">>

\* the value false, as produced by fs.existsSync(..) && '..'
False == <<"false">>

\* !x for x a string, undefined or false
Falsy(x) == x = Undefined \/ x = False \/ x = <<>>

\* String.prototype.endsWith
EndsWith(s, suffix) ==
    /\ Len(s) >= Len(suffix)
    /\ SubSeq(s, Len(s) - Len(suffix) + 1, Len(s)) = suffix

\* String.prototype.startsWith
StartsWith(s, prefix) ==
    /\ Len(s) >= Len(prefix)
    /\ SubSeq(s, 1, Len(prefix)) = prefix

\* String.prototype.indexOf(c, from), 1-based; 0 when c does not occur
IndexOf(s, c, from) ==
    LET hits == {i \in from..Len(s) : s[i] = c}
    IN  IF hits = {} THEN 0 ELSE CHOOSE i \in hits : \A j \in hits : i <= j

Digits == <<"0", "1", "2", "3", "4", "5", "6", "7", "8", "9">>

IsDigit(c) == \E d \in 1..10 : Digits[d] = c

DigitValue(c) == (CHOOSE d \in 1..10 : Digits[d] = c) - 1

\* a JavaScript number that is an integer or NaN
Num(n) == [nan |-> FALSE, n |-> n]
NaN == [nan |-> TRUE, n |-> 0]

RECURSIVE DigitsValue(_, _, _)
\* value of the run of decimal digits of s starting at i, given the value so far
DigitsValue(s, i, acc) ==
    IF i > Len(s) \/ ~IsDigit(s[i]) THEN acc
    ELSE DigitsValue(s, i + 1, acc * 10 + DigitValue(s[i]))

RECURSIVE SkipSpace(_, _)
SkipSpace(s, i) ==
    IF i <= Len(s) /\ s[i] = " " THEN SkipSpace(s, i + 1) ELSE i

\* Number.parseInt(s) for a string s, radix 10: leading white space and one
\* sign are skipped, the digits up to the first other character are read,
\* and the result is NaN when there is no digit
ParseInt(s) ==
    LET i == SkipSpace(s, 1)
        signed == i <= Len(s) /\ s[i] \in {"+", "-"}
        j == IF signed THEN i + 1 ELSE i
        mag == DigitsValue(s, j, 0)
    IN  IF j > Len(s) \/ ~IsDigit(s[j]) THEN NaN
        ELSE IF signed /\ s[i] = "-" THEN Num(0 - mag) ELSE Num(mag)

RECURSIVE NatToString(_)
NatToString(n) ==
    IF n < 10 THEN <<Digits[n + 1]>>
    ELSE NatToString(n \div 10) \o <<Digits[(n % 10) + 1]>>

\* '' + value for a number, as form-data does on append
NumberToString(x) ==
    IF x.nan THEN <<"N", "a", "N">>
    ELSE IF x.n < 0 THEN <<"-">> \o NatToString(0 - x.n)
    ELSE NatToString(x.n)

-----------------------------------------------------------------------------
(* Strings of the program and of the modelled command lines *)

Dashes == <<"-", "-">>
NameVersion == <<"v", "e", "r", "s", "i", "o", "n">>
NamePath == <<"p", "a", "t", "h">>
NameGameId == <<"g", "a", "m", "e", "I", "d">>
NameSdkVersion == <<"s", "d", "k", "V", "e", "r", "s", "i", "o", "n">>

\* the keys of the options object handed to parseArgs
OptionNames == {NameVersion, NamePath, NameGameId, NameSdkVersion}

Deploy == <<"d", "e", "p", "l", "o", "y">>
Public == <<"p", "u", "b", "l", "i", "c">>
IndexHtml == <<"/", "i", "n", "d", "e", "x", ".", "h", "t", "m", "l">>

SuffixMajor == <<".", "0", ".", "0">>
SuffixMinor == <<".", "0">>

Major == <<"m", "a", "j", "o", "r">>
Minor == <<"m", "i", "n", "o", "r">>
Patch == <<"p", "a", "t", "c", "h">>

-----------------------------------------------------------------------------
(* parseArgs of node:util, as main() calls it: every option has type       *)
(* 'string', strict mode (the default), no positionals allowed             *)

NoValues == [name \in OptionNames |-> Undefined]

\* --name, without a value attached
IsLoneLongOption(arg) ==
    Len(arg) > 2 /\ StartsWith(arg, Dashes) /\ IndexOf(arg, "=", 4) = 0

\* --name=value
IsLongOptionAndValue(arg) ==
    Len(arg) > 2 /\ StartsWith(arg, Dashes) /\ IndexOf(arg, "=", 4) # 0

\* a value that looks like an option is rejected as ambiguous
IsOptionLikeValue(value) == Len(value) > 1 /\ value[1] = "-"

Threw == [threw |-> TRUE, values |-> NoValues]

RECURSIVE ParseTokens(_, _, _)
\* the values object built from a[i..], or Threw when parseArgs throws:
\* an unknown option, a positional argument, an option without its value
\* or with a value that starts with '-'. A later occurrence of an option
\* replaces an earlier one.
ParseTokens(a, i, values) ==
    IF i > Len(a) THEN [threw |-> FALSE, values |-> values]
    ELSE IF IsLoneLongOption(a[i]) THEN
        LET name == SubSeq(a[i], 3, Len(a[i]))
        IN  IF name \notin OptionNames THEN Threw
            ELSE IF i = Len(a) THEN Threw
            ELSE IF IsOptionLikeValue(a[i + 1]) THEN Threw
            ELSE ParseTokens(a, i + 2, [values EXCEPT ![name] = a[i + 1]])
    ELSE IF IsLongOptionAndValue(a[i]) THEN
        LET eq == IndexOf(a[i], "=", 4)
            name == SubSeq(a[i], 3, eq - 1)
            value == SubSeq(a[i], eq + 1, Len(a[i]))
        IN  IF name \notin OptionNames THEN Threw
            ELSE ParseTokens(a, i + 1, [values EXCEPT ![name] = value])
    ELSE Threw

\* parseArgs({ options })
ParseArgsOf(a) == ParseTokens(a, 1, NoValues)

-----------------------------------------------------------------------------
(* The pure parts of main() *)

Err(text, p) == [text |-> text, path |-> p]

MissingVersion == Err("Missing 'version' argument.", <<>>)
MissingGameId == Err("Missing 'gameId' argument.", <<>>)
NoSuchPath ==
    Err("No such path: deploy/ or public/\nPass a path via --path argument.", <<>>)
PathDoesNotExist(p) == Err("Provided path <path> does not exist.", p)
NoIndexHtml(p) == Err("Provided path <path> does not contain an index.html.", p)
TokenNotSet == Err("'HEYVR_ACCESS_TOKEN' environment variable not set.", <<>>)

\* fs.existsSync
ExistsSync(files, p) == p \in files

\* a || b
Or(a, b) == IF Falsy(a) THEN b ELSE a

\* faulty variant: the default directory is taken without looking at the disk
ExistsAndUnchecked(files, p) == p

\* fs.existsSync(p) && p
ExistsAnd(files, p) == IF ExistsSync(files, p) THEN p ELSE False

\* faulty variant: public/ is preferred to deploy/
ResolvePathPublicFirst(values, files) ==
    Or(Or(values[NamePath], ExistsAnd(files, Public)), ExistsAnd(files, Deploy))

\* const path = args.values.path || (fs.existsSync('deploy') && 'deploy')
\*     || (fs.existsSync('public') && 'public')
ResolvePath(values, files) ==
    Or(Or(values[NamePath], ExistsAnd(files, Deploy)), ExistsAnd(files, Public))

\* faulty variant: the index.html test is an if of its own, not an else if
PathErrorsNoElse(p, files) ==
    (IF Falsy(p) THEN <<NoSuchPath>>
     ELSE IF ~ExistsSync(files, p) THEN <<PathDoesNotExist(p)>>
     ELSE <<>>)
    \o (IF ~Falsy(p) /\ ~ExistsSync(files, p \o IndexHtml)
        THEN <<NoIndexHtml(p)>> ELSE <<>>)

\* the if / else if / else if chain on path
PathErrors(p, files) ==
    IF Falsy(p) THEN <<NoSuchPath>>
    ELSE IF ~ExistsSync(files, p) THEN <<PathDoesNotExist(p)>>
    ELSE IF ~ExistsSync(files, p \o IndexHtml) THEN <<NoIndexHtml(p)>>
    ELSE <<>>

\* faulty variant: validation stops at the first failed check
CollectErrorsFailFast(values, files, token) ==
    IF Falsy(values[NameVersion]) THEN <<MissingVersion>>
    ELSE IF Falsy(values[NameGameId]) THEN <<MissingGameId>>
    ELSE IF PathErrors(ResolvePath(values, files), files) # <<>>
        THEN PathErrors(ResolvePath(values, files), files)
    ELSE IF Falsy(token) THEN <<TokenNotSet>>
    ELSE <<>>

\* the errors array when main() reaches if(errors.length != 0)
CollectErrors(values, files, token) ==
    (IF Falsy(values[NameVersion]) THEN <<MissingVersion>> ELSE <<>>)
    \o (IF Falsy(values[NameGameId]) THEN <<MissingGameId>> ELSE <<>>)
    \o PathErrors(ResolvePath(values, files), files)
    \o (IF Falsy(token) THEN <<TokenNotSet>> ELSE <<>>)

\* faulty variant: the '.0' test is made before the '.0.0' test
ClassifyVersionMinorFirst(s) ==
    IF EndsWith(s, SuffixMinor) THEN Minor
    ELSE IF EndsWith(s, SuffixMajor) THEN Major
    ELSE Patch

\* let version = 'patch'; if(s.endsWith('.0.0')) ... else if(s.endsWith('.0')) ...
ClassifyVersion(s) ==
    IF EndsWith(s, SuffixMajor) THEN Major
    ELSE IF EndsWith(s, SuffixMinor) THEN Minor
    ELSE Patch

\* the string main() classifies: process.argv[2], the first argument
ClassifiedArgument(a) == a[1]

\* faulty variant: the || 1 default is left out
SdkVersionFieldNoDefault(values) ==
    NumberToString(ParseInt(values[NameSdkVersion]))

\* Number.parseInt(args.values.sdkVersion || 1), as appended to the form
SdkVersionField(values) ==
    NumberToString(ParseInt(Or(values[NameSdkVersion], NumberToString(Num(1)))))

Field(name, value) == [name |-> name, value |-> value]

\* the four buildData.append calls
BuildData(values, file, ver) ==
    << Field("game_slug", values[NameGameId]),
       Field("game_file", file),
       Field("version", ver),
       Field("sdk_version", SdkVersionField(values)) >>

RECURSIVE Concat(_)
\* Buffer.concat
Concat(bs) == IF bs = <<>> THEN <<>> ELSE Head(bs) \o Concat(Tail(bs))

Line(fd, text, arg) == [fd |-> fd, text |-> text, arg |-> arg]

RECURSIVE ErrorLines(_)
\* for(const e of errors) console.error("x " + e)
ErrorLines(es) ==
    IF es = <<>> THEN <<>>
    ELSE <<Line("stderr", es[1].text, es[1].path)>> \o ErrorLines(Tail(es))

\* printUsage()
UsageLines ==
    << Line("stdout", "", <<>>),
       Line("stdout", "# Usage", <<>>),
       Line("stdout", "heyvr --version <version> --gameId <gameId>", <<>>),
       Line("stdout", "", <<>>),
       Line("stdout", "version  x.y.z, converted into 'minor'/'major'/'patch'.", <<>>),
       Line("stdout", "gameId   Game ID for heyVR.", <<>>),
       Line("stdout", "path     Path to the game, index.html required at root.", <<>>),
       Line("stdout", "         Default deploy/ or public/.", <<>>),
       Line("stdout", "", <<>>),
       Line("stdout", "The command expects 'HEYVR_ACCESS_TOKEN' environment", <<>>),
       Line("stdout", "variable for authentication.", <<>>) >>

\* what the if(errors.length != 0) block prints
ReportLines(es) ==
    <<Line("stderr", "Found <n> errors:", NatToString(Len(es)))>>
    \o ErrorLines(es) \o UsageLines

-----------------------------------------------------------------------------
(* The runs that are explored: command line, disk and environment *)

Opt(name) == Dashes \o name
Inline(name, value) == Dashes \o name \o <<"=">> \o value

V200 == <<"2", ".", "0", ".", "0">>
V1100 == <<"1", ".", "1", "0", ".", "0">>
V123 == <<"1", ".", "2", ".", "3">>
Game == <<"g">>
GameDot0 == <<"g", ".", "0">>
Dist == <<"d", "i", "s", "t">>
Token == <<"t", "o", "k">>

\* how --version may appear: not at all, with its value as the next
\* argument, as --version=value, without a value, or as a bare value
VersionGroups ==
    { <<>>,
      <<Opt(NameVersion), V1100>>, <<Opt(NameVersion), V123>>,
      <<Inline(NameVersion, V200)>>, <<Inline(NameVersion, <<>>)>>,
      <<Opt(NameVersion)>>, <<V200>> }

GameIdGroups ==
    { <<>>, <<Opt(NameGameId), Game>>, <<Inline(NameGameId, GameDot0)>> }

PathGroups ==
    { <<>>, <<Opt(NamePath), Dist>>, <<Inline(NamePath, Deploy)>>,
      <<Opt(NamePath), <<>>>> }

SdkVersionGroups ==
    { <<>>, <<Opt(NameSdkVersion), <<"1", "2">>>>,
      <<Inline(NameSdkVersion, <<"x">>)>>,
      <<Inline(NameSdkVersion, <<>>)>> }

\* the orders in which the four groups are written on the command line
Orders == { <<1, 2, 3, 4>>, <<2, 1, 3, 4>> }

CommandLines ==
    { LET g == <<v, id, p, sdk>>
      IN  g[o[1]] \o g[o[2]] \o g[o[3]] \o g[o[4]] :
        v \in VersionGroups, id \in GameIdGroups, p \in PathGroups,
        sdk \in SdkVersionGroups, o \in Orders }

\* a directory is absent, present without index.html, or present with it
DirStates(d) == { {}, {d}, {d, d \o IndexHtml} }

\* a directory is absent or present with its index.html
DirOrNone(d) == { {}, {d, d \o IndexHtml} }

Disks ==
    { a \cup b \cup c :
        a \in DirStates(Deploy), b \in DirOrNone(Public), c \in DirOrNone(Dist) }

AccessTokens == { Undefined, Token }

\* archive data arrives in chunks; their content is not looked at
Chunk == <<"P", "K">>

\* statuses axios resolves with (validateStatus: 2xx) and rejects with
ResolvedStatuses == {200, 201}
RejectedStatuses == {401, 500}

NoResponse == [kind |-> "none", status |-> 0]

-----------------------------------------------------------------------------
(* main() *)

Init ==
    /\ argv \in CommandLines
    /\ fs \in Disks
    /\ env \in AccessTokens
    /\ pc = "parse"
    /\ args = NoValues
    /\ errors = <<>>
    /\ path = Undefined
    /\ version = Undefined
    /\ buffers = <<>>
    /\ gameFile = Undefined
    /\ form = <<>>
    /\ posts = 0
    /\ response = NoResponse
    /\ out = <<>>
    /\ exitCode = <<>>
    /\ input = <<>>
    /\ keyword = Undefined

Log(lines) == out' = out \o lines

\* faulty variant: an unhandled rejection only warns and the process ends with 0
UncaughtWarns(before, what) ==
    /\ Log(before \o <<Line("stderr", what, <<>>)>>)
    /\ exitCode' = <<0>>
    /\ pc' = "exited"

\* an exception thrown in main() or in a promise callback rejects a promise
\* that nothing handles: node prints the error, after the lines printed
\* before the throw, and ends the process with code 1
Uncaught(before, what) ==
    /\ Log(before \o <<Line("stderr", what, <<>>)>>)
    /\ exitCode' = <<1>>
    /\ pc' = "exited"

\* const args = parseArgs({ options })
ParseArgs ==
    /\ pc = "parse"
    /\ LET r == ParseArgsOf(argv)
       IN  IF r.threw
           THEN /\ Uncaught(<<>>, "TypeError [ERR_PARSE_ARGS]")
                /\ UNCHANGED args
           ELSE /\ args' = r.values
                /\ pc' = "validate"
                /\ UNCHANGED <<out, exitCode>>
    /\ UNCHANGED <<argv, fs, env, errors, path, version, buffers, gameFile,
                   form, posts, response, input, keyword>>

\* the four checks and the report: every check runs before the process exits
Validate ==
    /\ pc = "validate"
    /\ errors' = CollectErrors(args, fs, env)
    /\ path' = ResolvePath(args, fs)
    /\ IF Len(errors') # 0
       THEN /\ Log(ReportLines(errors'))
            /\ exitCode' = <<1>>
            /\ pc' = "exited"
       ELSE /\ pc' = "classify"
            /\ UNCHANGED <<out, exitCode>>
    /\ UNCHANGED <<argv, fs, env, args, version, buffers, gameFile, form,
                   posts, response, input, keyword>>

\* the version keyword is chosen, then zipDeployFolder(path) starts the
\* archive and main() waits for it
Classify ==
    /\ pc = "classify"
    /\ version' = ClassifyVersion(ClassifiedArgument(argv))
    /\ buffers' = <<>>
    /\ pc' = "zipping"
    /\ UNCHANGED <<argv, fs, env, args, errors, path, gameFile, form, posts,
                   response, out, exitCode, input, keyword>>

\* output.on('data', d => buffers.push(d))
ArchiveData ==
    /\ pc = "zipping"
    /\ Len(buffers) < MaxChunks
    /\ buffers' = Append(buffers, Chunk)
    /\ UNCHANGED <<argv, fs, env, pc, args, errors, path, version, gameFile,
                   form, posts, response, out, exitCode, input, keyword>>

\* output.on('end', () => res(Buffer.concat(buffers)))
ArchiveEnd ==
    /\ pc = "zipping"
    /\ gameFile' = Concat(buffers)
    /\ pc' = "resume"
    /\ UNCHANGED <<argv, fs, env, args, errors, path, version, buffers, form,
                   posts, response, out, exitCode, input, keyword>>

\* archive.on('error', rej), then .catch(console.error): the error is
\* printed and the awaited value is undefined
ArchiveError ==
    /\ pc = "zipping"
    /\ Log(<<Line("stderr", "archive error", <<>>)>>)
    /\ gameFile' = Undefined
    /\ pc' = "resume"
    /\ UNCHANGED <<argv, fs, env, args, errors, path, version, buffers, form,
                   posts, response, exitCode, input, keyword>>

\* faulty variant: the request is issued whatever the archive step produced
UploadUnchecked ==
    /\ pc = "resume"
    /\ form' = BuildData(args, gameFile, version)
    /\ Log(<<Line("stdout", "Publishing <version> version of <gameId> to HeyVR.",
                  version)>>)
    /\ posts' = posts + 1
    /\ pc' = "request"
    /\ UNCHANGED <<argv, fs, env, args, errors, path, version, buffers,
                   gameFile, response, exitCode, input, keyword>>

\* main() after the await: gameFile.length throws on undefined; otherwise
\* the form is built and the request is issued
Upload ==
    /\ pc = "resume"
    /\ IF gameFile = Undefined
       THEN /\ Uncaught(<<>>, "TypeError: Cannot read properties of undefined")
            /\ UNCHANGED <<form, posts>>
       ELSE /\ form' = BuildData(args, gameFile, version)
            /\ Log(<< Line("stdout", "Publishing <version> version (<n> B)",
                             NatToString(Len(gameFile))),
                        Line("stdout", "Publishing <version> version of <gameId> to HeyVR.",
                             version) >>)
            /\ posts' = posts + 1
            /\ pc' = "request"
            /\ UNCHANGED exitCode
    /\ UNCHANGED <<argv, fs, env, args, errors, path, version, buffers,
                   gameFile, response, input, keyword>>

\* the request settles: resolved with a 2xx status, rejected with the
\* response of another status, or rejected without any response
Settle ==
    /\ pc = "request"
    /\ \/ \E st \in ResolvedStatuses :
            /\ response' = [kind |-> "resolved", status |-> st]
            /\ pc' = "then"
       \/ \E st \in RejectedStatuses :
            /\ response' = [kind |-> "rejected", status |-> st]
            /\ pc' = "catch"
       \/ /\ response' = [kind |-> "network", status |-> 0]
          /\ pc' = "catch"
    /\ UNCHANGED <<argv, fs, env, args, errors, path, version, buffers,
                   gameFile, form, posts, out, exitCode, input, keyword>>

\* faulty variant: every resolved response counts as success
ThenAnyStatus ==
    /\ pc = "then"
    /\ Log(<<Line("stdout", "Done.", <<>>)>>)
    /\ pc' = "idle"
    /\ UNCHANGED <<argv, fs, env, args, errors, path, version, buffers,
                   gameFile, form, posts, response, exitCode, input, keyword>>

\* .then(res => ...)
Then ==
    /\ pc = "then"
    /\ IF response.status = 200
       THEN /\ Log(<<Line("stdout", "Done.", <<>>)>>)
            /\ pc' = "idle"
            /\ UNCHANGED exitCode
       ELSE /\ Log(<< Line("stdout", "Upload failed with code",
                             NatToString(response.status)),
                        Line("stdout", "res.data", <<>>) >>)
            /\ exitCode' = <<1>>
            /\ pc' = "exited"
    /\ UNCHANGED <<argv, fs, env, args, errors, path, version, buffers,
                   gameFile, form, posts, response, input, keyword>>

\* .catch(error => ...): error.response.data throws when there is no
\* response, after the error itself has been printed
Catch ==
    /\ pc = "catch"
    /\ IF response.kind = "network"
       THEN Uncaught(<< Line("stderr", "Request failed with error:", <<>>),
                        Line("stderr", "error.toString() (undefined)", <<>>) >>,
                     "TypeError: Cannot read properties of undefined")
       ELSE /\ Log(<< Line("stderr", "Request failed with error:", <<>>),
                      Line("stderr", "error.toString() (statusText)",
                           NatToString(response.status)),
                      Line("stdout", "error.response.data", <<>>) >>)
            /\ exitCode' = <<1>>
            /\ pc' = "exited"
    /\ UNCHANGED <<argv, fs, env, args, errors, path, version, buffers,
                   gameFile, form, posts, response, input, keyword>>

\* nothing is pending any more: the process ends with code 0
ProcessEnd ==
    /\ pc = "idle"
    /\ exitCode' = <<0>>
    /\ pc' = "exited"
    /\ UNCHANGED <<argv, fs, env, args, errors, path, version, buffers,
                   gameFile, form, posts, response, out, input, keyword>>

Next ==
    \/ ParseArgs
    \/ Validate
    \/ Classify
    \/ ArchiveData
    \/ ArchiveEnd
    \/ ArchiveError
    \/ Upload
    \/ Settle
    \/ Then
    \/ Catch
    \/ ProcessEnd

Spec == Init /\ [][Next]_vars

\* every enabled step is eventually taken: node runs a pending callback
FairSpec == Spec /\ WF_vars(Next)

-----------------------------------------------------------------------------
(* The version classifier on its own, over every string up to MaxLen *)

Alphabet == {"0", "1", "."}

Strings == UNION { [1..n -> Alphabet] : n \in 0..MaxLen }

InitClassifier ==
    /\ input \in Strings
    /\ keyword = Undefined
    /\ argv = <<>>
    /\ fs = {}
    /\ env = Undefined
    /\ pc = "classifier"
    /\ args = NoValues
    /\ errors = <<>>
    /\ path = Undefined
    /\ version = Undefined
    /\ buffers = <<>>
    /\ gameFile = Undefined
    /\ form = <<>>
    /\ posts = 0
    /\ response = NoResponse
    /\ out = <<>>
    /\ exitCode = <<>>

ApplyClassifier ==
    /\ pc = "classifier"
    /\ keyword = Undefined
    /\ keyword' = ClassifyVersion(input)
    /\ UNCHANGED <<argv, fs, env, pc, args, errors, path, version, buffers,
                   gameFile, form, posts, response, out, exitCode, input>>

SpecClassifier == InitClassifier /\ [][ApplyClassifier]_vars

-----------------------------------------------------------------------------
(* Properties *)

\* s ends with the characters of t, read off position by position
HasTail(s, t) ==
    /\ Len(s) >= Len(t)
    /\ \A i \in 1..Len(t) : s[Len(s) - Len(t) + i] = t[i]

Printed(text) == \E i \in 1..Len(out) : out[i].text = text

PrintedError(e) ==
    \E i \in 1..Len(out) :
        out[i].fd = "stderr" /\ out[i].text = e.text /\ out[i].arg = e.path

InErrors(e) == \E i \in 1..Len(errors) : errors[i] = e

\* the validation step has run
Validated == path # Undefined

\* the archive step has been started
Archiving == version # Undefined

FormNames == [i \in 1..Len(form) |-> form[i].name]

FormValue(name) ==
    form[CHOOSE i \in 1..Len(form) : form[i].name = name].value

Count(b) == IF b THEN 1 ELSE 0

VersionMissing == args[NameVersion] \in {Undefined, <<>>}
GameIdMissing == args[NameGameId] \in {Undefined, <<>>}
TokenMissing == env \in {Undefined, <<>>}
PathSupplied == args[NamePath] \notin {Undefined, <<>>}
DefaultDir ==
    IF Deploy \in fs THEN Deploy ELSE IF Public \in fs THEN Public ELSE False
ChosenDir == IF PathSupplied THEN args[NamePath] ELSE DefaultDir
PathProblem ==
    \/ ChosenDir = False
    \/ ChosenDir \notin fs
    \/ (ChosenDir \o IndexHtml) \notin fs

FailedPreconditions ==
    Count(VersionMissing) + Count(GameIdMissing) + Count(PathProblem)
    + Count(TokenMissing)

PathErrorTexts ==
    { NoSuchPath.text, PathDoesNotExist(<<>>).text, NoIndexHtml(<<>>).text }

PathErrorCount ==
    Cardinality({i \in 1..Len(errors) : errors[i].text \in PathErrorTexts})

\* C1: the classifier is a suffix rule with fixed precedence: a string that
\* ends in '.0.0' gives 'major', one that ends in '.0' but not in '.0.0'
\* gives 'minor', every other string gives 'patch' ('0.0.0' is major,
\* '1.10.0' is minor), and the result is always one of the three keywords.
C1_SuffixRule ==
    keyword # Undefined =>
        /\ keyword \in {Major, Minor, Patch}
        /\ HasTail(input, <<".", "0", ".", "0">>) => keyword = Major
        /\ (HasTail(input, <<".", "0">>) /\ ~HasTail(input, <<".", "0", ".", "0">>))
              => keyword = Minor
        /\ ~HasTail(input, <<".", "0">>) => keyword = Patch
        /\ input = <<"0", ".", "0", ".", "0">> => keyword = Major
        /\ input = V1100 => keyword = Minor

C1_Witness == input = <<"0", ".", "0", ".", "0">> /\ keyword = Major

\* C2: the keyword sent in the 'version' form field is the classification
\* of the value passed to --version, whatever the order and the form of
\* the flags on the command line.
C2_KeywordOfVersionOption ==
    posts > 0 =>
        /\ HasTail(args[NameVersion], <<".", "0", ".", "0">>)
              => FormValue("version") = Major
        /\ (HasTail(args[NameVersion], <<".", "0">>)
            /\ ~HasTail(args[NameVersion], <<".", "0", ".", "0">>))
              => FormValue("version") = Minor
        /\ ~HasTail(args[NameVersion], <<".", "0">>)
              => FormValue("version") = Patch

\* C3: validation does not fail fast: once validation has run, the errors
\* collected are exactly one per failed precondition (version, gameId,
\* path, token), and when there is any, the count and every error are
\* printed and the process has ended with code 1.
C3_AllErrorsReported ==
    Validated =>
        /\ Len(errors) = FailedPreconditions
        /\ VersionMissing <=> InErrors(MissingVersion)
        /\ GameIdMissing <=> InErrors(MissingGameId)
        /\ PathProblem <=> PathErrorCount = 1
        /\ TokenMissing <=> InErrors(TokenNotSet)
        /\ FailedPreconditions > 0 =>
              /\ exitCode = <<1>>
              /\ \E i \in 1..Len(out) :
                    /\ out[i].text = "Found <n> errors:"
                    /\ out[i].arg = NatToString(FailedPreconditions)
              /\ \A i \in 1..Len(errors) : PrintedError(errors[i])

C3_Witness ==
    /\ Validated
    /\ VersionMissing /\ GameIdMissing /\ PathProblem /\ TokenMissing
    /\ Len(errors) = 4
    /\ exitCode = <<1>>

\* C4 as stated: the archived directory is the --path value whenever one
\* is supplied, otherwise deploy/ when it exists, otherwise public/.
C4_PathWheneverSupplied ==
    Archiving =>
        path = IF args[NamePath] # Undefined THEN args[NamePath]
               ELSE IF Deploy \in fs THEN Deploy
               ELSE Public

\* C4 amended: the archived directory is the --path value whenever a
\* non-empty one is supplied (even if deploy/ or public/ exist); otherwise
\* (no --path, or an empty one) deploy/ whenever it exists (even if public/
\* also exists); otherwise public/, which then exists.
C4_PathPriority ==
    Archiving =>
        /\ PathSupplied => path = args[NamePath]
        /\ (~PathSupplied /\ Deploy \in fs) => path = Deploy
        /\ (~PathSupplied /\ Deploy \notin fs) => (path = Public /\ Public \in fs)

C4_Witness ==
    /\ Archiving
    /\ args[NamePath] = Dist /\ path = Dist
    /\ Deploy \in fs /\ Public \in fs

\* C5: once validation has run, a run without --path and with neither
\* deploy/ nor public/ has reported the missing-path error, a run whose
\* resolved path exists but holds no index.html has reported that error,
\* both have ended with code 1, and no run collects two path errors.
C5_PathErrors ==
    Validated =>
        /\ (~PathSupplied /\ Deploy \notin fs /\ Public \notin fs) =>
              /\ InErrors(NoSuchPath) /\ PrintedError(NoSuchPath)
              /\ exitCode = <<1>>
        /\ (ChosenDir # False /\ ChosenDir \in fs
            /\ (ChosenDir \o IndexHtml) \notin fs) =>
              /\ InErrors(NoIndexHtml(ChosenDir))
              /\ PrintedError(NoIndexHtml(ChosenDir))
              /\ exitCode = <<1>>
        /\ PathErrorCount <= 1

C5_Witness ==
    /\ Validated
    /\ ~PathSupplied /\ path = Deploy
    /\ InErrors(NoIndexHtml(Deploy))
    /\ exitCode = <<1>>

ArchiveFailed == Printed("archive error")
RequestFailed == response.kind \in {"rejected", "network"}
Not200 == response.kind = "resolved" /\ response.status # 200
RuntimeFailure == ArchiveFailed \/ RequestFailed \/ Not200

\* C6: after an archive error, a rejected request (with or without a
\* response) or a resolved response other than 200, the run never prints
\* 'Done.' nor ends with code 0, and it does end, with code 1, the failure
\* having been printed.
C6_RuntimeFailuresExitNonZero ==
    /\ [](RuntimeFailure => (~Printed("Done.") /\ exitCode # <<0>>))
    /\ [](RuntimeFailure /\ pc = "exited" =>
            /\ exitCode = <<1>>
            /\ ArchiveFailed \/ Printed("Request failed with error:")
               \/ Printed("Upload failed with code"))
    /\ (RuntimeFailure ~> exitCode = <<1>>)

C6_Witness ==
    /\ response.kind = "network"
    /\ pc = "exited"
    /\ exitCode = <<1>>

\* C7: a run ends with code 0 only after validation found no error, the
\* archive was built, the response had status 200 and 'Done.' was printed;
\* and every run whose response is 200 does end with code 0.
C7_ExitZeroIffOk ==
    /\ [](exitCode = <<0>> =>
            /\ Validated /\ errors = <<>>
            /\ gameFile # Undefined
            /\ response = [kind |-> "resolved", status |-> 200]
            /\ Printed("Done."))
    /\ [](response.status # 200 => exitCode # <<0>>)
    /\ (response.status = 200 ~> exitCode = <<0>>)

C7_Witness ==
    /\ response.status = 200
    /\ Printed("Done.")
    /\ exitCode = <<0>>

C9_OneUploadInOrder ==
    /\ posts <= 1
    /\ Archiving => (Validated /\ errors = <<>>)
    /\ posts = 1 =>
          /\ Archiving
          /\ gameFile # Undefined /\ gameFile = Concat(buffers)
          /\ ~ArchiveFailed
    /\ response # NoResponse => posts = 1
    /\ (Printed("Done.") \/ Printed("Upload failed with code")
        \/ Printed("Request failed with error:")) => response # NoResponse
    /\ errors # <<>> => (~Archiving /\ buffers = <<>> /\ posts = 0)
    /\ ArchiveFailed => posts = 0

C9_Witness ==
    /\ posts = 1
    /\ response.kind = "rejected"
    /\ pc = "exited"

\* C10: 'Provided path <p> does not exist.' is only ever collected for a
\* non-empty --path value; a path taken from the deploy/ or public/ default
\* yields the missing index.html error or no path error.
C10_NotExistOnlyForExplicitPath ==
    /\ \A i \in 1..Len(errors) :
          errors[i].text = PathDoesNotExist(<<>>).text =>
              /\ PathSupplied
              /\ errors[i].path = args[NamePath]
    /\ (Validated /\ ~PathSupplied /\ path # False) =>
          /\ path \in {Deploy, Public}
          /\ \A i \in 1..Len(errors) :
                errors[i].text \in PathErrorTexts => errors[i] = NoIndexHtml(path)

C10_Witness ==
    /\ InErrors(PathDoesNotExist(Dist))
    /\ args[NamePath] = Dist
    /\ Dist \notin fs

====
